---- MODULE Spec2Model ----
(***************************************************************************)
(* simpletree.py: a directory tree printer that honours gitignore-style    *)
(* patterns.  The model keeps strings as sequences of one-character        *)
(* strings so that globbing, case folding, stripping and path              *)
(* normalisation are computed, not assumed.                                *)
(*                                                                         *)
(* State: the file system under the root (names, kinds), the argument      *)
(* string the root is given by, the content of the root's .gitignore, the  *)
(* parser's pattern list, the call stack of tree() and the printed lines.  *)
(***************************************************************************)
EXTENDS Integers, Sequences, FiniteSets, TLC

VARIABLES
    fs,         \* set of entries [path, kind]; path is relative to the root
    rootArg,    \* the `directory` argument of the level-0 call, a string
    gitignore,  \* [exists, lines]: the root's .gitignore file
    patterns,   \* GitignoreParser.patterns
    stack,      \* the frames of tree(), innermost last
    out,        \* the lines printed so far
    prev,       \* the lines printed by the previous run, if any
    run,        \* the number of this run, from 1
    pc          \* "init" | "run" | "done"

vars == <<fs, rootArg, gitignore, patterns, stack, out, prev, run, pc>>

----------------------------------------------------------------------------
(* Bounds of the model *)

\* entries below the root, the .gitignore file not counted
MaxEntries == 3
\* directories that refuse to be listed
MaxLocked == 1
\* runs of the tool on the same tree
MaxRuns == 2

----------------------------------------------------------------------------
(* Strings *)

\* printable ASCII, code 32 first (code 96 is spelled out: the grave accent
\* cannot be written in a string here, and no name or pattern uses it)
ASCII ==
    << " ", "!", "\"", "#", "$", "%", "&", "'", "(", ")", "*", "+", ",", "-",
       ".", "/", "0", "1", "2", "3", "4", "5", "6", "7", "8", "9", ":", ";",
       "<", "=", ">", "?", "@", "A", "B", "C", "D", "E", "F", "G", "H", "I",
       "J", "K", "L", "M", "N", "O", "P", "Q", "R", "S", "T", "U", "V", "W",
       "X", "Y", "Z", "[", "\\", "]", "^", "_", "grave", "a", "b", "c", "d", "e",
       "f", "g", "h", "i", "j", "k", "l", "m", "n", "o", "p", "q", "r", "s",
       "t", "u", "v", "w", "x", "y", "z", "{", "|", "}", "~" >>

OrdTable ==
    [c \in {ASCII[k] : k \in 1..Len(ASCII)} |->
        31 + (CHOOSE k \in 1..Len(ASCII) : ASCII[k] = c)]

\* ord(c)
Ord(c) == OrdTable[c]

\* str.lower() on one character
LowerChar(c) ==
    IF Ord(c) >= 65 /\ Ord(c) <= 90 THEN ASCII[Ord(c) + 32 - 31] ELSE c

\* str.lower()
Lower(s) == [k \in 1..Len(s) |-> LowerChar(s[k])]

\* s < t for Python strings: lexicographic by code point
RECURSIVE StrLess(_, _)
StrLess(s, t) ==
    IF t = << >> THEN FALSE
    ELSE IF s = << >> THEN TRUE
    ELSE IF Head(s) = Head(t) THEN StrLess(Tail(s), Tail(t))
    ELSE Ord(Head(s)) < Ord(Head(t))

StartsWith(s, p) == Len(p) <= Len(s) /\ SubSeq(s, 1, Len(p)) = p

EndsWith(s, p) ==
    Len(p) <= Len(s) /\ SubSeq(s, Len(s) - Len(p) + 1, Len(s)) = p

\* str.strip(chars) / str.rstrip(chars)
RECURSIVE LStrip(_, _)
LStrip(s, chars) ==
    IF s # << >> /\ Head(s) \in chars THEN LStrip(Tail(s), chars) ELSE s

RECURSIVE RStrip(_, _)
RStrip(s, chars) ==
    IF s # << >> /\ s[Len(s)] \in chars
    THEN RStrip(SubSeq(s, 1, Len(s) - 1), chars)
    ELSE s

Strip(s, chars) == RStrip(LStrip(s, chars), chars)

Whitespace == {" ", "\t", "\n", "\r"}

\* str.split(sep) for a one-character separator
RECURSIVE Split(_, _)
Split(s, sep) ==
    IF \A k \in 1..Len(s) : s[k] # sep THEN << s >>
    ELSE LET k == CHOOSE j \in 1..Len(s) :
                     s[j] = sep /\ \A h \in 1..(j - 1) : s[h] # sep
         IN  << SubSeq(s, 1, k - 1) >> \o Split(SubSeq(s, k + 1, Len(s)), sep)

\* sep.join(parts)
RECURSIVE Join(_, _)
Join(parts, sep) ==
    IF parts = << >> THEN << >>
    ELSE IF Len(parts) = 1 THEN parts[1]
    ELSE parts[1] \o sep \o Join(Tail(parts), sep)

----------------------------------------------------------------------------
(* Paths: pathlib.Path values are [anchor, parts]; os.path works on strings *)

\* leading slashes kept by POSIX path handling: exactly two stay two
Slashes(s) ==
    IF StartsWith(s, << "/", "/" >>) /\ ~StartsWith(s, << "/", "/", "/" >>)
    THEN 2
    ELSE IF StartsWith(s, << "/" >>) THEN 1 ELSE 0

SlashRun(n) == [k \in 1..n |-> "/"]

\* Path(s): empty and "." components are dropped
Path(s) ==
    [anchor |-> Slashes(s),
     parts  |-> SelectSeq(Split(s, "/"),
                          LAMBDA c : c # << >> /\ c # << "." >>)]

\* str(path)
PathStr(p) ==
    IF p.anchor = 0 /\ p.parts = << >> THEN << "." >>
    ELSE SlashRun(p.anchor) \o Join(p.parts, << "/" >>)

\* path.name
PathName(p) == IF p.parts = << >> THEN << >> ELSE p.parts[Len(p.parts)]

\* path.parent
PathParent(p) ==
    IF p.parts = << >> THEN p
    ELSE [p EXCEPT !.parts = SubSeq(p.parts, 1, Len(p.parts) - 1)]

\* path / name
PathChild(p, name) == [p EXCEPT !.parts = Append(p.parts, name)]

\* the loop of os.path.normpath over the components
RECURSIVE NormComps(_, _, _)
NormComps(comps, new, anchored) ==
    IF comps = << >> THEN new
    ELSE LET c == Head(comps)
             n == Len(new)
         IN  IF c = << >> \/ c = << "." >>
             THEN NormComps(Tail(comps), new, anchored)
             ELSE IF \/ c # << ".", "." >>
                     \/ (~anchored /\ n = 0)
                     \/ (n > 0 /\ new[n] = << ".", "." >>)
             THEN NormComps(Tail(comps), Append(new, c), anchored)
             ELSE IF n > 0
             THEN NormComps(Tail(comps), SubSeq(new, 1, n - 1), anchored)
             ELSE NormComps(Tail(comps), new, anchored)

\* os.path.normpath
normpath(s) ==
    IF s = << >> THEN << "." >>
    ELSE LET a == Slashes(s)
             r == SlashRun(a)
                    \o Join(NormComps(Split(s, "/"), << >>, a > 0), << "/" >>)
         IN  IF r = << >> THEN << "." >> ELSE r

\* os.path.basename
basename(s) ==
    IF \A k \in 1..Len(s) : s[k] # "/" THEN s
    ELSE LET k == CHOOSE j \in 1..Len(s) :
                     s[j] = "/" /\ \A h \in (j + 1)..Len(s) : s[h] # "/"
         IN  SubSeq(s, k + 1, Len(s))

----------------------------------------------------------------------------
(* GitignoreParser *)

default_patterns ==
    << << "n", "o", "d", "e", "_", "m", "o", "d", "u", "l", "e", "s" >>,
       << "d", "i", "s", "t" >>,
       << "_", "_", "p", "y", "c", "a", "c", "h", "e", "_", "_" >>,
       << "*", ".", "p", "y", "c" >>,
       << ".", "g", "i", "t" >>,
       << ".", "D", "S", "_", "S", "t", "o", "r", "e" >>,
       << "b", "u", "i", "l", "d" >>,
       << ".", "e", "n", "v" >>,
       << "v", "e", "n", "v" >>,
       << ".", "v", "e", "n", "v" >> >>

\* the lines of the file that become patterns, in file order
RECURSIVE FileLines(_)
FileLines(lines) ==
    IF lines = << >> THEN << >>
    ELSE LET line == Strip(Head(lines), Whitespace)
         IN  IF line # << >> /\ Head(line) # "#"
             THEN << Strip(line, {"/"}) >> \o FileLines(Tail(lines))
             ELSE FileLines(Tail(lines))

\* a load in which the file's patterns take the place of the defaults
load_gitignore_file_only(file) ==
    IF file.exists THEN FileLines(file.lines) ELSE default_patterns

\* the pattern list load_gitignore leaves behind
load_gitignore(file) ==
    IF file.exists THEN default_patterns \o FileLines(file.lines)
    ELSE default_patterns

\* a match that stops at the end of the pattern, not of the string
RECURSIVE fnmatch_unanchored(_, _)
fnmatch_unanchored(s, pat) ==
    IF pat = << >> THEN TRUE
    ELSE IF Head(pat) = "*"
    THEN fnmatch_unanchored(s, Tail(pat))
            \/ (s # << >> /\ fnmatch_unanchored(Tail(s), pat))
    ELSE /\ s # << >>
         /\ (Head(pat) = "?" \/ Head(pat) = Head(s))
         /\ fnmatch_unanchored(Tail(s), Tail(pat))

\* fnmatch.fnmatch on POSIX: the whole string against a glob of literal
\* characters, "?" and "*" ("*" also runs across "/").  Patterns with "["
\* are outside the pattern pools of this model.
RECURSIVE fnmatch(_, _)
fnmatch(s, pat) ==
    IF pat = << >> THEN s = << >>
    ELSE IF Head(pat) = "*"
    THEN fnmatch(s, Tail(pat)) \/ (s # << >> /\ fnmatch(Tail(s), pat))
    ELSE /\ s # << >>
         /\ (Head(pat) = "?" \/ Head(pat) = Head(s))
         /\ fnmatch(Tail(s), Tail(pat))

\* the positions where "**" starts in pat
StarStars(pat) ==
    {k \in 1..(Len(pat) - 1) : pat[k] = "*" /\ pat[k + 1] = "*"}

\* pattern.split('**'): leftmost, non-overlapping
RECURSIVE SplitStarStar(_)
SplitStarStar(pat) ==
    IF StarStars(pat) = {} THEN << pat >>
    ELSE LET k == CHOOSE j \in StarStars(pat) : \A h \in StarStars(pat) : j <= h
         IN  << SubSeq(pat, 1, k - 1) >>
                 \o SplitStarStar(SubSeq(pat, k + 2, Len(pat)))

\* one turn of the loop of should_ignore: does this pattern end the loop
\* with True
PatternHits(pattern, path, name, is_dir) ==
    IF EndsWith(pattern, << "/" >>) /\ ~is_dir THEN FALSE
    ELSE LET pt == RStrip(pattern, {"/"})
         IN  \/ fnmatch(path, pt)
             \/ fnmatch(name, pt)
             \/ /\ StarStars(pt) # {}
                /\ LET parts == SplitStarStar(pt)
                   IN  /\ Len(parts) = 2
                       /\ StartsWith(path, parts[1])
                       /\ EndsWith(path, parts[2])

\* the loop over the patterns, in order, with its early return
RECURSIVE IgnoreLoop(_, _, _, _)
IgnoreLoop(pats, path, name, is_dir) ==
    IF pats = << >> THEN FALSE
    ELSE IF PatternHits(Head(pats), path, name, is_dir) THEN TRUE
    ELSE IgnoreLoop(Tail(pats), path, name, is_dir)

\* GitignoreParser.should_ignore with self.patterns = pats
should_ignore(pats, pathstr, is_dir) ==
    LET path == normpath(pathstr)
    IN  IgnoreLoop(pats, path, basename(path), is_dir)

----------------------------------------------------------------------------
(* The file system, as the calls of tree() see it *)

Last(q) == q[Len(q)]

Front(q) == SubSeq(q, 1, Len(q) - 1)

\* the entry a Path value names: its parts below the root's
Rel(p) == SubSeq(p.parts, Len(Path(rootArg).parts) + 1, Len(p.parts))

EntryAt(rel) == CHOOSE e \in fs : e.path = rel

\* Path.is_dir()
is_dir(p) == \E e \in fs : e.path = Rel(p) /\ e.kind # "file"

\* the entries directly inside the directory at rel
Children(rel) == {e \in fs : e.path # << >> /\ Front(e.path) = rel}

\* the Path values Path.iterdir() yields, as a set: their order is the
\* operating system's and is chosen where the listing is taken
iterdir(p) == {PathChild(p, Last(e.path)) : e \in Children(Rel(p))}

\* every order a listing of the set S can come in
RECURSIVE Listings(_)
Listings(S) ==
    IF S = {} THEN {<< >>}
    ELSE UNION {{<< x >> \o q : q \in Listings(S \ {x})} : x \in S}

----------------------------------------------------------------------------
(* tree() *)

\* glyphs of the output, in ASCII: U+2514 U+2500 U+2500 space,
\* U+251C U+2500 U+2500 space, U+2502 and three spaces, four spaces
ELBOW == "L-- "

TEE == "|-- "

BAR == "|   "

INDENT == "    "

\* a key that puts non-directories first
SortKey_files_first(x) ==
    [notdir |-> is_dir(x), lname |-> Lower(PathName(x))]

\* the sort key of line 101: (not x.is_dir(), x.name.lower())
SortKey(x) == [notdir |-> ~is_dir(x), lname |-> Lower(PathName(x))]

\* a comparison that sorts downwards
KeyLess_descending(k1, k2) ==
    \/ (k1.notdir /\ ~k2.notdir)
    \/ (k1.notdir = k2.notdir /\ StrLess(k2.lname, k1.lname))

\* tuple comparison of two keys, False before True
KeyLess(k1, k2) ==
    \/ (~k1.notdir /\ k2.notdir)
    \/ (k1.notdir = k2.notdir /\ StrLess(k1.lname, k2.lname))

\* sorted(): stable, so x goes behind every element whose key is not greater
RECURSIVE InsertStable(_, _)
InsertStable(q, x) ==
    IF q = << >> THEN << x >>
    ELSE IF KeyLess(SortKey(x), SortKey(Head(q))) THEN << x >> \o q
    ELSE << Head(q) >> \o InsertStable(Tail(q), x)

RECURSIVE sorted(_)
sorted(q) ==
    IF q = << >> THEN << >> ELSE InsertStable(sorted(Front(q)), Last(q))

\* the list comprehension of lines 106-109
Filtered(q) ==
    SelectSeq(q, LAMBDA item : ~should_ignore(patterns, PathStr(item), is_dir(item)))

\* line 93: not any(Path(directory).parent.iterdir()); a Path is truthy
is_last(directory) == ~(\E x \in iterdir(PathParent(Path(directory))) : TRUE)

\* the line of lines 90-94; path is the entry it is printed for
Line(f) ==
    LET path == Path(f.directory)
    IN  IF f.level = 0
        THEN [prefix |-> << >>, conn |-> "", name |-> PathName(path),
              path |-> Rel(path)]
        ELSE [prefix |-> f.prefix,
              conn   |-> IF is_last(f.directory) THEN ELBOW ELSE TEE,
              name   |-> PathName(path),
              path   |-> Rel(path)]

\* a prefix that takes the last item for one past the end
new_prefix_off_by_one(f) ==
    IF f.level = 0 THEN << INDENT >>
    ELSE f.prefix \o << IF f.i = Len(f.contents) THEN INDENT ELSE BAR >>

\* lines 114-118
new_prefix(f) ==
    IF f.level = 0 THEN << INDENT >>
    ELSE LET is_last_item == (f.i = Len(f.contents) - 1)
         IN  f.prefix \o << IF is_last_item THEN INDENT ELSE BAR >>

Frame(directory, level, prefix) ==
    [directory |-> directory, level |-> level, prefix |-> prefix,
     at |-> "check", contents |-> << >>, i |-> 0]

Top == stack[Len(stack)]

\* a call that lets the root through unchecked
ignores_below_root(f) ==
    /\ f.level > 0
    /\ should_ignore(patterns, PathStr(Path(f.directory)),
                     is_dir(Path(f.directory)))

\* line 86: gitignore_parser.should_ignore(str(path), path.is_dir())
ignores(f) ==
    should_ignore(patterns, PathStr(Path(f.directory)),
                  is_dir(Path(f.directory)))

\* return from the innermost call
Popped == IF Len(stack) = 1 THEN << >> ELSE Front(stack)

Return ==
    /\ stack' = Popped
    /\ pc' = IF Len(stack) = 1 THEN "done" ELSE "run"

\* tree(path) of main(): lines 81-83, a fresh parser loaded at level 0
LoadGitignore ==
    /\ pc = "init"
    /\ patterns' = load_gitignore(gitignore)
    /\ stack' = << Frame(rootArg, 0, << >>) >>
    /\ pc' = "run"
    /\ UNCHANGED <<fs, rootArg, gitignore, out, prev, run>>

\* lines 86-87: the entry is ignored, the call returns at once
Ignored ==
    /\ pc = "run" /\ Top.at = "check"
    /\ ignores(Top)
    /\ Return
    /\ UNCHANGED <<fs, rootArg, gitignore, patterns, out, prev, run>>

\* lines 90-97: the line is printed; a non-directory returns
PrintEntry ==
    /\ pc = "run" /\ Top.at = "check"
    /\ ~ignores(Top)
    /\ out' = Append(out, Line(Top))
    /\ IF is_dir(Path(Top.directory))
       THEN /\ stack' = [stack EXCEPT ![Len(stack)].at = "list"]
            /\ pc' = pc
       ELSE Return
    /\ UNCHANGED <<fs, rootArg, gitignore, patterns, prev, run>>

\* lines 99-109: the listing, in whatever order it comes, sorted, filtered
ListDir ==
    /\ pc = "run" /\ Top.at = "list"
    /\ EntryAt(Rel(Path(Top.directory))).kind = "dir"
    /\ \E listing \in Listings(iterdir(Path(Top.directory))) :
          stack' = [stack EXCEPT ![Len(stack)].at = "loop",
                                 ![Len(stack)].contents = Filtered(sorted(listing)),
                                 ![Len(stack)].i = 0]
    /\ UNCHANGED <<fs, rootArg, gitignore, patterns, out, prev, run, pc>>

\* a listing failure that is not caught unwinds every call
ListDenied_uncaught ==
    /\ pc = "run" /\ Top.at = "list"
    /\ EntryAt(Rel(Path(Top.directory))).kind = "locked"
    /\ stack' = << >>
    /\ pc' = "done"
    /\ UNCHANGED <<fs, rootArg, gitignore, patterns, out, prev, run>>

\* lines 102-103: PermissionError, the call returns
ListDenied ==
    /\ pc = "run" /\ Top.at = "list"
    /\ EntryAt(Rel(Path(Top.directory))).kind = "locked"
    /\ Return
    /\ UNCHANGED <<fs, rootArg, gitignore, patterns, out, prev, run>>

\* lines 112-121: one turn of the loop, up to the recursive call
Descend ==
    /\ pc = "run" /\ Top.at = "loop"
    /\ Top.i < Len(Top.contents)
    /\ stack' = Append([stack EXCEPT ![Len(stack)].i = Top.i + 1],
                       Frame(PathStr(Top.contents[Top.i + 1]),
                             Top.level + 1, new_prefix(Top)))
    /\ UNCHANGED <<fs, rootArg, gitignore, patterns, out, prev, run, pc>>

\* the loop is over, the call returns
LoopDone ==
    /\ pc = "run" /\ Top.at = "loop"
    /\ Top.i = Len(Top.contents)
    /\ Return
    /\ UNCHANGED <<fs, rootArg, gitignore, patterns, out, prev, run>>

\* the tool is started again on the same tree
Rerun ==
    /\ pc = "done"
    /\ run < MaxRuns
    /\ run' = run + 1
    /\ prev' = out
    /\ out' = << >>
    /\ patterns' = << >>
    /\ pc' = "init"
    /\ UNCHANGED <<fs, rootArg, gitignore, stack>>

----------------------------------------------------------------------------
(* The inputs: names, .gitignore files, root arguments, trees *)

n_sub == << "s", "u", "b" >>

n_a_txt == << "a", ".", "t", "x", "t" >>

n_A_txt == << "A", ".", "t", "x", "t" >>

n_b_txt == << "b", ".", "t", "x", "t" >>

n_build == << "b", "u", "i", "l", "d" >>

n_logs == << "l", "o", "g", "s" >>

n_x_log == << "x", ".", "l", "o", "g" >>

n_x_logger == << "x", ".", "l", "o", "g", "g", "e", "r" >>

n_node_modules == << "n", "o", "d", "e", "_", "m", "o", "d", "u", "l", "e", "s" >>

n_gitignore == << ".", "g", "i", "t", "i", "g", "n", "o", "r", "e" >>

Kinds == {"file", "dir", "locked"}

\* the set of the entries of a sequence
Range(q) == {q[k] : k \in 1..Len(q)}

LockedIn(t) == Cardinality({k \in 1..Len(t) : t[k].kind = "locked"})

\* an order of the paths in which a directory comes before what it holds
RECURSIVE SeqLess(_, _)
SeqLess(p, q) ==
    IF Head(p) = Head(q) THEN Len(p) > 1 /\ SeqLess(Tail(p), Tail(q))
    ELSE StrLess(Head(p), Head(q))

PathLess(p, q) ==
    Len(p) < Len(q) \/ (Len(p) = Len(q) /\ Len(p) > 0 /\ SeqLess(p, q))

\* the trees of T with one entry more, named from names, of any kind, put
\* into any directory; a tree is the sequence of its entries, the added
\* ones in the order of their paths, so that each tree is built once
Grown(T, names, given, n) ==
    {Append(y[1], [path |-> Append(y[1][y[2]].path, y[3]), kind |-> y[4]]) :
        y \in
            {x \in T \X (1..(given + n)) \X names \X Kinds :
                /\ x[2] <= Len(x[1])
                /\ x[1][x[2]].kind # "file"
                /\ \A k \in 1..given :
                      x[1][k].path # Append(x[1][x[2]].path, x[3])
                /\ \/ Len(x[1]) = given
                   \/ PathLess(x[1][Len(x[1])].path,
                               Append(x[1][x[2]].path, x[3]))
                /\ (x[4] = "locked" => LockedIn(x[1]) < MaxLocked)}}

\* the trees that add at most n entries to one of the trees in base, each
\* of which has `given` entries
RECURSIVE TreesFrom(_, _, _, _)
TreesFrom(base, names, given, n) ==
    IF n = 0 THEN base
    ELSE LET T == TreesFrom(base, names, given, n - 1)
         IN  T \cup Grown(T, names, given, n)

\* a root directory, listable or not
Roots ==
    {<< [path |-> << >>, kind |-> k] >> :
        k \in IF MaxLocked > 0 THEN {"dir", "locked"} ELSE {"dir"}}

\* the trees of at most n entries below a root directory
Trees(names, n) == TreesFrom(Roots, names, 1, n)

NoFile == [exists |-> FALSE, lines |-> << >>]

File(lines) == [exists |-> TRUE, lines |-> lines]

\* the .gitignore file is an entry of the root directory like any other
WithGitignore(t, file) ==
    IF file.exists THEN t \cup {[path |-> << n_gitignore >>, kind |-> "file"]}
    ELSE t

InitFrom(trees, files, roots) ==
    /\ \E t \in trees :
          /\ rootArg \in roots
          /\ gitignore \in files
          /\ fs = WithGitignore(Range(t), gitignore)
    /\ patterns = << >>
    /\ stack = << >>
    /\ out = << >>
    /\ prev = << >>
    /\ run = 1
    /\ pc = "init"

\* sibling names that differ only in letter case, and a name the default
\* patterns match; each may be a file or a directory
TreeNames == {n_sub, n_a_txt, n_A_txt, n_build}

\* a named root and a root the default patterns match
TreeRoots == {<< "p" >>, n_build}

Init == InitFrom(Trees(TreeNames, MaxEntries), {NoFile}, TreeRoots)

Next ==
    \/ LoadGitignore
    \/ Ignored
    \/ PrintEntry
    \/ ListDir
    \/ ListDenied
    \/ Descend
    \/ LoopDone

Spec == Init /\ [][Next]_vars

\* the tool run again on the unchanged tree
NextTwice == Next \/ Rerun

SpecTwice == Init /\ [][NextTwice]_vars

\* names a "*.log" pattern matches or only seems to match
GlobNames == {n_sub, n_x_log, n_x_logger}

\* no file; a file whose only pattern is "*.log", among a comment, a blank
\* line and blanks around it; a file with a second pattern
GlobFiles ==
    {NoFile,
     File(<< << "#", " ", "l", "o", "g", "s" >>,
             << >>,
             << " ", "*", ".", "l", "o", "g", " ", "\n" >> >>),
     File(<< << "/", "s", "u", "b", "/" >>, << "*", ".", "l", "o", "g" >> >>)}

GlobRoots == {<< "p" >>, << ".", "/", "x", ".", "l", "o", "g" >>}

InitGlob == InitFrom(Trees(GlobNames, MaxEntries), GlobFiles, GlobRoots)

SpecGlob == InitGlob /\ [][Next]_vars

\* a name the default patterns match and one they do not
DirOnlyNames == {n_logs, n_build}

\* no file, and files with one directory-only line
DirOnlyFiles ==
    {NoFile,
     File(<< << "l", "o", "g", "s", "/" >> >>),
     File(<< << "b", "u", "i", "l", "d", "/" >> >>)}

DirOnlyRoots == {<< "p" >>, n_build}

InitDirOnly ==
    InitFrom(Trees(DirOnlyNames, MaxEntries), DirOnlyFiles, DirOnlyRoots)

SpecDirOnly == InitDirOnly /\ [][Next]_vars

DefaultsNames == {n_node_modules, n_sub}

\* no file, an empty file, a negation and a lone slash, a pattern of its own
DefaultsFiles ==
    {NoFile,
     File(<< >>),
     File(<< << "!", "n", "o", "d", "e", "_", "m", "o", "d", "u", "l", "e", "s" >>,
             << "/" >> >>),
     File(<< << "s", "u", "b" >> >>)}

DefaultsRoots == {<< "p" >>, << "w", "/", "n", "o", "d", "e", "_", "m", "o", "d", "u", "l", "e", "s" >>}

InitDefaults ==
    InitFrom(Trees(DefaultsNames, MaxEntries), DefaultsFiles, DefaultsRoots)

SpecDefaults == InitDefaults /\ [][Next]_vars

\* entries added to the three of the example
MaxExtra == 1

\* a root holding a.txt, b.txt and sub
ABCBase ==
    {t \in {r \o << [path |-> << n_a_txt >>, kind |-> "file"],
                     [path |-> << n_b_txt >>, kind |-> "file"],
                     [path |-> << n_sub >>, kind |-> k] >> :
                 r \in Roots, k \in {"dir", "locked"}} :
        LockedIn(t) <= MaxLocked}

ABCNames == {n_A_txt, n_build}

\* roots by many names: plain, the current directory, absolute with a dot
\* and a doubled slash, through "..", and names the default patterns match
ABCRoots ==
    {<< "p" >>,
     << "." >>,
     << "/", "w", "/", ".", "/", "/", "p" >>,
     << "w", "/", ".", ".", "/", "p" >>,
     << "p", "/", "q", "/", ".", "." >>,
     n_build,
     << "w", "/", "d", "i", "s", "t", "/" >>,
     << "m", ".", "p", "y", "c" >>}

InitABC ==
    InitFrom(TreesFrom(ABCBase, ABCNames, 4, MaxExtra), {NoFile}, ABCRoots)

SpecABC == InitABC /\ [][Next]_vars

----------------------------------------------------------------------------
(* What the claims speak of *)

\* the Path value of the entry at rel
PathOfRel(rel) ==
    [anchor |-> Path(rootArg).anchor, parts |-> Path(rootArg).parts \o rel]

\* should_ignore for an entry of the tree, under the loaded patterns
EntryIgnored(e) ==
    should_ignore(patterns, PathStr(PathOfRel(e.path)), e.kind # "file")

\* the entry's ancestors up to the root, the entry itself included or not
UpToRoot(rel) == {SubSeq(rel, 1, k) : k \in 0..Len(rel)}

Above(rel) == {SubSeq(rel, 1, k) : k \in 0..(Len(rel) - 1)}

\* the positions of the output that hold a line for the entry at rel
LinesFor(rel) == {i \in 1..Len(out) : out[i].path = rel}

\* the lines below the root
Below == {i \in 1..Len(out) : out[i].path # << >>}

Siblings(i, j) ==
    i \in Below /\ j \in Below /\ Front(out[i].path) = Front(out[j].path)

\* no sibling's line follows line i
LastPrinted(i) == \A j \in Below : (j > i) => ~Siblings(i, j)

LineKind(i) == EntryAt(out[i].path).kind

Locked == {e \in fs : e.kind = "locked"}

----------------------------------------------------------------------------
(* C1: every line below the root is prefix, connector, base name, and the
   connector is the elbow exactly for the last surviving child of its
   parent, the tee for every other child. *)
C1_Connector ==
    pc = "done" =>
        \A i \in Below :
            /\ out[i].name = Last(out[i].path)
            /\ out[i].conn = IF LastPrinted(i) THEN ELBOW ELSE TEE

(* C3: among the lines of one directory's children, directories come before
   non-directories, and inside each group the lower-cased names never
   decrease. *)
C3_SiblingOrder ==
    \A i, j \in Below :
        (i < j /\ Siblings(i, j)) =>
            /\ (LineKind(i) = "file") => (LineKind(j) = "file")
            /\ ((LineKind(i) = "file") = (LineKind(j) = "file"))
                   => ~StrLess(Lower(out[j].name), Lower(out[i].name))

\* a directory and two files of different lower-cased names were printed
\* as children of the root
C3_Witness ==
    /\ pc = "done"
    /\ \E i, j, k \in Below :
          /\ i < j /\ j < k
          /\ Siblings(i, j) /\ Siblings(j, k)
          /\ LineKind(i) # "file" /\ LineKind(j) = "file" /\ LineKind(k) = "file"
          /\ Lower(out[j].name) # Lower(out[k].name)

(* C4: a second run on the unchanged tree prints what the first run
   printed, whatever order the directory listings come in. *)
C4_Deterministic == (pc = "done" /\ run > 1) => out = prev

(* C9: a child of the root is printed with the prefix of one indent; deeper,
   the prefix is the parent's prefix plus an indent for the last surviving
   child and plus a bar for any other; a line at depth d has d units; a
   call's prefix is what its caller computed for as long as the call lasts. *)
C9_Prefix ==
    /\ \A i \in Below :
          /\ Len(out[i].prefix) = Len(out[i].path)
          /\ \A u \in 1..Len(out[i].prefix) : out[i].prefix[u] \in {INDENT, BAR}
          /\ Len(out[i].path) = 1 => out[i].prefix = << INDENT >>
          /\ Len(out[i].path) > 1 =>
                \E h \in LinesFor(Front(out[i].path)) :
                    Front(out[i].prefix) = out[h].prefix
          /\ (pc = "done" /\ Len(out[i].path) > 1) =>
                (Last(out[i].prefix) = INDENT <=> LastPrinted(i))
    /\ \A k \in 2..Len(stack) :
          stack[k].prefix =
              IF stack[k - 1].level = 0 THEN << INDENT >>
              ELSE stack[k - 1].prefix
                     \o << IF stack[k - 1].i = Len(stack[k - 1].contents)
                           THEN INDENT ELSE BAR >>

\* two children of a directory below the root were printed, the first with
\* a bar and the second with an indent
C9_Witness ==
    /\ pc = "done"
    /\ \E i, j \in Below :
          /\ i < j /\ Siblings(i, j)
          /\ Len(out[i].path) = 2
          /\ out[i].prefix = << INDENT, BAR >>
          /\ out[j].prefix = << INDENT, INDENT >>

(* C10: a directory that cannot be listed has its own line printed before
   the listing fails; nothing below it is printed; the walk goes on, so
   every entry outside it is printed exactly as the ignore rules say. *)
C10_Denied ==
    /\ (pc = "run" /\ Top.at = "list") =>
          (out # << >> /\ Last(out).path = Rel(Path(Top.directory)))
    /\ pc = "done" =>
          \A e \in fs :
              Cardinality(LinesFor(e.path)) =
                  IF /\ \A a \in UpToRoot(e.path) : ~EntryIgnored(EntryAt(a))
                     /\ \A a \in Above(e.path) : EntryAt(a).kind # "locked"
                  THEN 1 ELSE 0

\* a directory that cannot be listed has an entry inside it, its own line,
\* and the line of a sibling after it
C10_Witness ==
    /\ pc = "done"
    /\ \E i, j \in Below :
          /\ i < j /\ Siblings(i, j)
          /\ LineKind(i) = "locked"
          /\ Children(out[i].path) # {}

----------------------------------------------------------------------------
(* The claims about the patterns *)

\* the lines of the file that load_gitignore keeps, as written (blanks
\* around them apart): the k-th of them is behind the k-th pattern after
\* the defaults
KeptLines(file) ==
    SelectSeq([k \in 1..Len(file.lines) |-> Strip(file.lines[k], Whitespace)],
              LAMBDA line : line # << >> /\ Head(line) # "#")

\* the pattern of the file's k-th kept line
Custom(k) == patterns[Len(default_patterns) + k]

StarLog == << "*", ".", "l", "o", "g" >>

EntryStr(e) == normpath(PathStr(PathOfRel(e.path)))

(* C2: a line written with a trailing slash is a directory-only pattern:
   it does not make should_ignore true for a non-directory of that name,
   and a directory of that name is ignored; with the line "build/" a
   non-directory named build is not excluded. *)
C2_DirectoryOnly ==
    (pc # "init" /\ gitignore.exists) =>
        \A k \in 1..Len(KeptLines(gitignore)) :
            LET line == KeptLines(gitignore)[k]
            IN  (EndsWith(line, << "/" >>) /\ Len(patterns) >= Len(default_patterns) + k) =>
                    \A e \in fs :
                        (e.path # << >> /\ Last(e.path) = Strip(line, {"/"})) =>
                            IF e.kind = "file"
                            THEN /\ ~PatternHits(Custom(k), EntryStr(e),
                                                 basename(EntryStr(e)), FALSE)
                                 /\ (line = n_build \o << "/" >>) => ~EntryIgnored(e)
                            ELSE EntryIgnored(e)

(* C6: with the pattern "*.log" loaded, nothing named x.log is ever printed;
   and when "*.log" is the file's only pattern, a file named x.logger is
   printed once if every directory above it was printed and listed. *)
C6_Glob ==
    (\E k \in 1..Len(patterns) : patterns[k] = StarLog) =>
        /\ \A i \in 1..Len(out) : out[i].name # n_x_log
        /\ (pc = "done"
              /\ \A k \in 1..Len(patterns) :
                    k > Len(default_patterns) => patterns[k] = StarLog) =>
              \A e \in fs :
                  (/\ e.path # << >>
                   /\ Last(e.path) = n_x_logger
                   /\ e.kind = "file"
                   /\ \A a \in Above(e.path) :
                         LinesFor(a) # {} /\ EntryAt(a).kind = "dir")
                      => Cardinality(LinesFor(e.path)) = 1

\* under "*.log", a directory below the root holds x.log and x.logger, and
\* x.logger has its line
C6_Witness ==
    /\ pc = "done"
    /\ \E k \in 1..Len(patterns) : patterns[k] = StarLog
    /\ \E e, g \in fs :
          /\ Len(e.path) = 2 /\ Len(g.path) = 2
          /\ Front(e.path) = Front(g.path)
          /\ Last(e.path) = n_x_logger /\ e.kind = "file"
          /\ Last(g.path) = n_x_log /\ g.kind = "file"
          /\ LinesFor(e.path) # {}

\* a directory named node_modules, by the name its path ends in
NodeModulesDirs ==
    {e \in fs : e.kind # "file" /\ basename(EntryStr(e)) = n_node_modules}

(* C7: whatever the .gitignore holds, the loaded patterns start with the
   ten defaults in order; once they are loaded an entry is ignored exactly
   when some pattern hits it; a directory named node_modules is never
   printed and no call gets as far as listing it. *)
C7_Defaults ==
    pc # "init" =>
        /\ Len(patterns) >= 10
        /\ SubSeq(patterns, 1, 10) = default_patterns
        /\ (Len(stack) = 1 /\ Top.at = "check") =>
              \A e \in fs :
                  EntryIgnored(e) <=>
                      \E k \in 1..Len(patterns) :
                          PatternHits(patterns[k], EntryStr(e),
                                      basename(EntryStr(e)), e.kind # "file")
        /\ \A e \in NodeModulesDirs :
              /\ \A d \in fs :
                    e.path \in UpToRoot(d.path) => LinesFor(d.path) = {}
              /\ \A k \in 1..Len(stack) :
                    Rel(Path(stack[k].directory)) = e.path => stack[k].at = "check"

\* a .gitignore with patterns of its own, a directory node_modules in the
\* root with an entry inside, and other lines printed
C7_Witness ==
    /\ pc = "done"
    /\ Len(patterns) > 10
    /\ Len(out) >= 2
    /\ \E e, d \in fs :
          /\ e.path = << n_node_modules >> /\ e.kind = "dir"
          /\ Len(d.path) = 2 /\ Front(d.path) = e.path

(* C8: with no directory that cannot be listed, an entry has a line exactly
   when should_ignore is false for it and for everything above it, the root
   included, and then it has one line. *)
C8_Visibility ==
    (pc = "done" /\ Locked = {}) =>
        \A e \in fs :
            IF \A a \in UpToRoot(e.path) : ~EntryIgnored(EntryAt(a))
            THEN Cardinality(LinesFor(e.path)) = 1
            ELSE LinesFor(e.path) = {}

\* an ignored directory holds an entry no pattern matches, next to a
\* sibling that is printed
C8_Witness ==
    /\ pc = "done" /\ Locked = {}
    /\ \E e, d \in fs :
          /\ e.kind = "dir" /\ EntryIgnored(e)
          /\ d.path # << >> /\ Front(d.path) = e.path /\ ~EntryIgnored(d)
          /\ \E i \in Below : Siblings(i, i) /\ Front(out[i].path) = Front(e.path)

\* the root itself is ignored: nothing at all is printed
C8_WitnessRoot ==
    /\ pc = "done" /\ Locked = {}
    /\ EntryIgnored(EntryAt(<< >>))
    /\ Cardinality(fs) > 2

----------------------------------------------------------------------------
(* The claim about the example tree *)

NameLines(nm) == {i \in Below : Len(out[i].path) = 1 /\ out[i].name = nm}

HasABC ==
    /\ ~gitignore.exists
    /\ \E e \in fs : e.path = << n_a_txt >> /\ e.kind = "file"
    /\ \E e \in fs : e.path = << n_b_txt >> /\ e.kind = "file"
    /\ \E e \in fs : e.path = << n_sub >> /\ e.kind # "file"

InOrderABC ==
    \E i \in NameLines(n_sub), j \in NameLines(n_a_txt), k \in NameLines(n_b_txt) :
        i < j /\ j < k

(* C5 as written: whatever the root is called and however it is given, the
   output has the lines of sub, a.txt and b.txt, in this order. *)
C5_AnyRoot == (pc = "done" /\ HasABC) => InOrderABC

\* the name the root's path ends in once normalised
RootBase == basename(normpath(PathStr(Path(rootArg))))

\* the default patterns, as the names they match
DefaultMatches(nm) ==
    \/ nm \in {n_node_modules, << "d", "i", "s", "t" >>,
               << "_", "_", "p", "y", "c", "a", "c", "h", "e", "_", "_" >>,
               << ".", "g", "i", "t" >>,
               << ".", "D", "S", "_", "S", "t", "o", "r", "e" >>,
               n_build, << ".", "e", "n", "v" >>, << "v", "e", "n", "v" >>,
               << ".", "v", "e", "n", "v" >>}
    \/ EndsWith(nm, << ".", "p", "y", "c" >>)

(* C5 amended: if the root can be listed and the name its normalised path
   ends in matches no default pattern, the output has the lines of sub,
   a.txt and b.txt, in this order. *)
C5_UnignoredRoot ==
    (pc = "done" /\ HasABC /\ EntryAt(<< >>).kind = "dir"
        /\ ~DefaultMatches(RootBase)) => InOrderABC

\* the three are printed for a root given through "..", next to a fourth
\* entry
C5_Witness ==
    /\ pc = "done" /\ HasABC /\ InOrderABC
    /\ rootArg = << "w", "/", ".", ".", "/", "p" >>
    /\ Cardinality(fs) > 4

====
